---------------------------- MODULE Spec2Model ----------------------------
(***************************************************************************)
(* audit-lnd: one run of a channel-keyed report (bandwidth-failures or     *)
(* remote-failures) of audit-lnd.py.                                       *)
(*                                                                         *)
(*   collect_channel_data()  fills channel_point_map from the REST server  *)
(*   get_logs()              reads lnd.log, then the lnd.log.N.gz archives *)
(*   parse_routing_failures  folds the returned lines into res             *)
(*   routing_failures        renders one table row per key of res          *)
(*                                                                         *)
(* Time is counted in whole seconds.  A log line is abstracted to what the *)
(* program looks at: whether REGEX_LOG_START matches it, whether strptime  *)
(* accepts the matched text and the instant it yields, and what the        *)
(* report's regex captures from it.                                        *)
(***************************************************************************)
EXTENDS Integers, Sequences, FiniteSets, TLC

VARIABLES
    rest,               \* the REST server's answers (input)
    logdir,             \* the log directory (input)
    channel_point_map,  \* global dict, line 24
    logs,               \* get_logs: logs
    used_all_logs,      \* get_logs / parse_gz_log_files: used_all_logs
    gz_queue,           \* parse_gz_log_files: what is left of the sorted list
    scanned,            \* history: every line a loop iteration looked at
    warned,             \* get_logs printed the retention warning
    idx,                \* parse_routing_failures: next line of logs to fold
    res,                \* parse_routing_failures: res
    table,              \* routing_failures: rows added to the table
    pc,                 \* where the run is
    error               \* the exception that ended the run, or "none"

vars == <<rest, logdir, channel_point_map, logs, used_all_logs, gz_queue,
          scanned, warned, idx, res, table, pc, error>>

-----------------------------------------------------------------------------
(* Bounds of the explored inputs *)

MaxLines == 3    \* lines in the whole log directory
MaxGz == 2       \* highest rotation index of an archive
MaxAmt == 2      \* payloads are 0, AmountStep, ..., MaxAmt * AmountStep

(* Program constants *)

DefaultDays == 1          \* --days default
MsatPerSat == 1000        \* routing_failures divides by 1000
SecondsPerDay == 86400    \* timedelta(days=1)

AmountStep == MsatPerSat \div 2

-----------------------------------------------------------------------------
(* Sequences and maps *)

Range(s) == {s[i] : i \in DOMAIN s}

RECURSIVE Reversed(_)
Reversed(s) == IF s = <<>> THEN <<>> ELSE Append(Reversed(Tail(s)), Head(s))

RECURSIVE Concat(_)
Concat(ss) == IF ss = <<>> THEN <<>> ELSE Head(ss) \o Concat(Tail(ss))

SeqsUpTo(S, n) == UNION {[1..k -> S] : k \in 0..n}

EmptyMap == [x \in {} |-> x]

-----------------------------------------------------------------------------
(* settings, filled by parse_args *)

Now == 3 * SecondsPerDay

settings == [now |-> Now, days |-> DefaultDays,
             days_back |-> DefaultDays * SecondsPerDay]

Cutoff == settings.now - settings.days_back

-----------------------------------------------------------------------------
(* Log lines *)

NoMatch == [match |-> FALSE, channel_point |-> "", amount |-> 0]

Event(cp, amt) == [match |-> TRUE, channel_point |-> cp, amount |-> amt]

\* stamp "valid":   REGEX_LOG_START matches and strptime yields `time'
\* stamp "invalid": REGEX_LOG_START matches, strptime raises (month 13, ...)
\* stamp "none":    REGEX_LOG_START does not match (a continuation line)
LogLine(t, ev) == [stamp |-> "valid", time |-> t, ev |-> ev]
InvalidLine(ev) == [stamp |-> "invalid", time |-> 0, ev |-> ev]
PlainLine(ev) == [stamp |-> "none", time |-> 0, ev |-> ev]

ChannelPoints == {"A", "B"}

Amounts == {k * AmountStep : k \in 0..MaxAmt}

\* lines of the layout inputs: every kind of stamp, around the cutoff
LayoutLines ==
    {LogLine(t, NoMatch) : t \in {Cutoff - 1, Cutoff, Now}}
        \cup {InvalidLine(NoMatch), PlainLine(NoMatch)}

\* lines of the message inputs: recent lines, every kind of match
MessageLines ==
    {LogLine(Now, NoMatch)}
        \cup {LogLine(Now, Event("A", a)) : a \in Amounts}
        \cup {LogLine(Now, Event("B", 3 * AmountStep))}


-----------------------------------------------------------------------------
(* The REST server *)

\* get_channels(): one channel dict per channel of the node
ChannelOf(cp) ==
    [channel_point |-> cp, chan_id |-> <<"chan_id", cp>>,
     capacity |-> 100000, remote_pubkey |-> <<"pubkey", cp>>]

\* get_node_info(pubkey)['node']['alias'] when the server knows the node
AliasOf(cp) == <<"alias", cp>>

\* collect_channel_data, loop body: the dict stored for one channel.
\* answer "node":    the JSON has a 'node' entry, so peer_alias is set
\* answer "no_node": the JSON has none (an error body), nothing is set
IndexedChannel(cp, answer) ==
    IF answer = "node"
    THEN [channel_point |-> cp, chan_id |-> ChannelOf(cp).chan_id,
          capacity |-> ChannelOf(cp).capacity,
          remote_pubkey |-> ChannelOf(cp).remote_pubkey,
          peer_alias |-> AliasOf(cp)]
    ELSE ChannelOf(cp)

\* what the server may answer: the list call may fail; each node-info call
\* returns a node, returns a body without one, or fails ("error")
RestStates ==
    {[list_ok |-> FALSE, node_info |-> EmptyMap]}
        \cup {[list_ok |-> TRUE, node_info |-> ni] :
                ni \in UNION {[S -> {"node", "no_node", "error"}] :
                                S \in SUBSET ChannelPoints}}

-----------------------------------------------------------------------------
(* parse_log_file *)

\* re.match(REGEX_LOG_START, line)
MatchLogStart(line) == line.stamp # "none"

\* variant: >= in place of >, the line at the cutoff counts as too old
TooOldLate(log_time) == settings.now - log_time >= settings.days_back

\* line 84: settings['now'] - log_time > settings['days_back']
TooOld(log_time) == settings.now - log_time > settings.days_back

\* variant: a line that is too old is passed over and the loop goes on
LineStepNoStop(line) ==
    IF ~MatchLogStart(line) THEN "continue"
    ELSE IF line.stamp = "invalid" THEN "except"
    ELSE IF TooOld(line.time) THEN "continue"
    ELSE "append"

\* variant: a line without a timestamp is appended
LineStepForward(line) ==
    IF ~MatchLogStart(line) THEN "append"
    ELSE IF line.stamp = "invalid" THEN "except"
    ELSE IF TooOld(line.time) THEN "return"
    ELSE "append"

\* lines 80-88: what one iteration of the loop does with its line
LineStep(line) ==
    IF ~MatchLogStart(line) THEN "continue"
    ELSE IF line.stamp = "invalid" THEN "except"
    ELSE IF TooOld(line.time) THEN "return"
    ELSE "append"

\* lines 79-89 over what is left of reversed(list(logfile)); the head of a
\* reversed rest of length n is line n of the file
RECURSIVE ParseReversed(_, _, _, _)
ParseReversed(file, rev, parsed_logs, seen) ==
    IF rev = <<>>
    THEN [ret |-> TRUE, logs |-> parsed_logs, scanned |-> seen]
    ELSE LET line == Head(rev)
             seen2 == Append(seen, [file |-> file, pos |-> Len(rev),
                                    line |-> line])
             step == LineStep(line)
         IN  IF step = "return"
             THEN [ret |-> FALSE, logs |-> parsed_logs, scanned |-> seen2]
             ELSE IF step = "append"
             THEN ParseReversed(file, Tail(rev), Append(parsed_logs, line),
                                seen2)
             ELSE ParseReversed(file, Tail(rev), parsed_logs, seen2)

parse_log_file(file, logfile, parsed_logs, seen) ==
    ParseReversed(file, Reversed(logfile), parsed_logs, seen)

-----------------------------------------------------------------------------
(* parse_gz_log_files: the order of the archives *)

RECURSIVE Ascending(_)
Ascending(S) ==
    IF S = {} THEN <<>>
    ELSE LET n == CHOOSE x \in S : \A y \in S : x <= y
         IN  <<n>> \o Ascending(S \ {n})

\* variant: sorted without reverse=True
SortedGzAscending(S) == Ascending(S)

\* line 98: sorted(gz_logfiles, reverse=True), by rotation index
SortedGz(S) == Reversed(Ascending(S))

-----------------------------------------------------------------------------
(* parse_routing_failures *)

DefaultStat == [count |-> 0, total |-> 0, min |-> 0, max |-> 0]

\* re.search(regex, line): the channel point and the amount, if any
Search(line) == line.ev

\* variant: the membership test of line 140 left out
AlwaysAttributable(channel_point) == TRUE

\* line 140: channel_point in channel_point_map
Attributable(channel_point) == channel_point \in DOMAIN channel_point_map

\* variant: total = amount in place of total += amount
UpdateStatOverwrite(stat, amount) ==
    [count |-> stat.count + 1,
     total |-> amount,
     min |-> IF stat.min = 0 \/ amount < stat.min THEN amount ELSE stat.min,
     max |-> IF amount > stat.max THEN amount ELSE stat.max]

\* lines 143-148
UpdateStat(stat, amount) ==
    [count |-> stat.count + 1,
     total |-> stat.total + amount,
     min |-> IF stat.min = 0 \/ amount < stat.min THEN amount ELSE stat.min,
     max |-> IF amount > stat.max THEN amount ELSE stat.max]

\* res[channel_point] of the defaultdict
Get(r, channel_point) ==
    IF channel_point \in DOMAIN r THEN r[channel_point] ELSE DefaultStat

\* lines 137-148: the loop body for one line
FoldOne(r, line) ==
    LET m == Search(line)
    IN  IF m.match /\ Attributable(m.channel_point)
        THEN [k \in DOMAIN r \cup {m.channel_point} |->
                IF k = m.channel_point
                THEN UpdateStat(Get(r, k), m.amount)
                ELSE r[k]]
        ELSE r

-----------------------------------------------------------------------------
(* routing_failures *)

\* lines 121-129: the row of one key; the amounts are never negative, so
\* int(x / y) is the floor
Row(channel_point, values) ==
    LET total == values.total \div MsatPerSat
    IN  [peer_alias |-> channel_point_map[channel_point].peer_alias,
         count |-> values.count,
         total |-> total,
         avgtx |-> total \div values.count,
         mintx |-> values.min \div MsatPerSat,
         maxtx |-> values.max \div MsatPerSat,
         capacity |-> channel_point_map[channel_point].capacity,
         channel_id |-> channel_point_map[channel_point].chan_id]

\* lines 121-123 raise KeyError for this key
RowFails(channel_point) ==
    \/ channel_point \notin DOMAIN channel_point_map
    \/ "peer_alias" \notin DOMAIN channel_point_map[channel_point]

-----------------------------------------------------------------------------
(* The log directory *)

\* the lines of `all' that belong to file n, in file order
RECURSIVE LinesOf(_, _, _)
LinesOf(all, owner, n) ==
    IF all = <<>> THEN <<>>
    ELSE IF Head(owner) = n
    THEN <<Head(all)>> \o LinesOf(Tail(all), Tail(owner), n)
    ELSE LinesOf(Tail(all), Tail(owner), n)

\* file 0 is lnd.log, file n > 0 is lnd.log.n.gz; an archive that is not ok
\* cannot be opened, decompressed or decoded
LogDir(has_primary, ok, all, owner) ==
    [has_primary |-> has_primary,
     primary |-> LinesOf(all, owner, 0),
     gz |-> [n \in DOMAIN ok |->
               [ok |-> ok[n], lines |-> LinesOf(all, owner, n)]]]

\* each line of `all' is owned by a file that exists and can be read
Owned(has_primary, ok, owner) ==
    /\ \A i \in DOMAIN owner :
          \/ owner[i] = 0 /\ has_primary
          \/ owner[i] \in DOMAIN ok /\ ok[owner[i]]
    /\ \A i, j \in DOMAIN owner : i <= j => owner[i] <= owner[j]

\* the content of the directory: the lines of file n
FileLines(n) == IF n = 0 THEN logdir.primary ELSE logdir.gz[n].lines

\* the files with text in them
Files == (IF logdir.has_primary THEN {0} ELSE {}) \cup DOMAIN logdir.gz

-----------------------------------------------------------------------------
(* Initial states: the run has parsed its arguments (a channel-keyed       *)
(* report) and has read nothing yet.                                       *)

Start ==
    /\ channel_point_map = EmptyMap
    /\ logs = <<>>
    /\ used_all_logs = TRUE
    /\ gz_queue = <<>>
    /\ scanned = <<>>
    /\ warned = <<>>
    /\ idx = 1
    /\ res = EmptyMap
    /\ table = {}
    /\ pc = "collect_channel_data"
    /\ error = "none"

\* any layout of files and timestamps, a server with one known channel
InitLayout ==
    /\ rest = [list_ok |-> TRUE, node_info |-> [cp \in {"A"} |-> "node"]]
    /\ \E has_primary \in BOOLEAN :
       \E S \in SUBSET (1..MaxGz) :
       \E ok \in [S -> BOOLEAN] :
       \E all \in SeqsUpTo(LayoutLines, MaxLines) :
       \E owner \in [DOMAIN all -> 0..MaxGz] :
          /\ Owned(has_primary, ok, owner)
          /\ logdir = LogDir(has_primary, ok, all, owner)
    /\ Start

\* any messages in a recent lnd.log, any server
InitMessages ==
    /\ rest \in RestStates
    /\ \E all \in SeqsUpTo(MessageLines, MaxLines) :
          logdir = LogDir(TRUE, EmptyMap, all, [i \in DOMAIN all |-> 0])
    /\ Start

Init == InitLayout \/ InitMessages

-----------------------------------------------------------------------------
(* Actions *)

Raise(e) ==
    /\ pc' = "raised"
    /\ error' = e

\* lines 48-53, with get_channels and get_node_info: a failed request
\* raises out of the loop and ends the run
CollectChannelData ==
    /\ pc = "collect_channel_data"
    /\ IF ~rest.list_ok
       THEN Raise("get_channels") /\ UNCHANGED channel_point_map
       ELSE IF \E cp \in DOMAIN rest.node_info : rest.node_info[cp] = "error"
       THEN \* the map is left partly filled; the run is over
            Raise("get_node_info") /\ UNCHANGED channel_point_map
       ELSE /\ channel_point_map' =
                  [cp \in DOMAIN rest.node_info |->
                      IndexedChannel(cp, rest.node_info[cp])]
            /\ pc' = "get_logs"
            /\ UNCHANGED error
    /\ UNCHANGED <<rest, logdir, logs, used_all_logs, gz_queue, scanned,
                   warned, idx, res, table>>

\* lines 66-71: open lnd.log and parse it; the archives follow only when
\* it was used up
ParsePrimary ==
    /\ pc = "get_logs"
    /\ IF ~logdir.has_primary
       THEN /\ Raise("FileNotFoundError")
            /\ UNCHANGED <<logs, used_all_logs, scanned>>
       ELSE LET r == parse_log_file(0, logdir.primary, <<>>, scanned)
            IN  /\ logs' = r.logs
                /\ scanned' = r.scanned
                /\ used_all_logs' = r.ret
                /\ pc' = IF r.ret THEN "parse_gz_log_files"
                                  ELSE "get_logs_return"
                /\ UNCHANGED error
    /\ UNCHANGED <<rest, logdir, channel_point_map, gz_queue, warned, idx,
                   res, table>>

\* lines 92-98: list the archives and sort them
ListGzFiles ==
    /\ pc = "parse_gz_log_files"
    /\ gz_queue' = SortedGz(DOMAIN logdir.gz)
    /\ pc' = "gz_loop"
    /\ UNCHANGED <<rest, logdir, channel_point_map, logs, used_all_logs,
                   scanned, warned, idx, res, table, error>>

\* lines 98-103: one archive; gzip.open and decode raise out of the loop
ParseGzFile ==
    /\ pc = "gz_loop"
    /\ gz_queue # <<>>
    /\ LET n == Head(gz_queue)
       IN  IF ~logdir.gz[n].ok
           THEN /\ Raise("gzip")
                /\ UNCHANGED <<logs, used_all_logs, gz_queue, scanned>>
           ELSE LET r == parse_log_file(n, logdir.gz[n].lines, logs, scanned)
                IN  /\ logs' = r.logs
                    /\ scanned' = r.scanned
                    /\ used_all_logs' = r.ret
                    /\ gz_queue' = Tail(gz_queue)
                    /\ pc' = IF r.ret THEN "gz_loop" ELSE "get_logs_return"
                    /\ UNCHANGED error
    /\ UNCHANGED <<rest, logdir, channel_point_map, warned, idx, res, table>>

\* line 104: every archive was used up
GzLoopEnd ==
    /\ pc = "gz_loop"
    /\ gz_queue = <<>>
    /\ used_all_logs' = TRUE
    /\ pc' = "get_logs_return"
    /\ UNCHANGED <<rest, logdir, channel_point_map, logs, gz_queue, scanned,
                   warned, idx, res, table, error>>

\* lines 72-76: the warning names the time of logs[len(logs)-1]
GetLogsReturn ==
    /\ pc = "get_logs_return"
    /\ IF ~used_all_logs
       THEN pc' = "parse_routing_failures" /\ UNCHANGED <<warned, error>>
       ELSE IF logs = <<>>
       THEN Raise("IndexError") /\ UNCHANGED warned
       ELSE IF ~MatchLogStart(logs[Len(logs)])
       THEN Raise("AttributeError") /\ UNCHANGED warned
       ELSE /\ warned' = <<logs[Len(logs)].time>>
            /\ pc' = "parse_routing_failures"
            /\ UNCHANGED error
    /\ UNCHANGED <<rest, logdir, channel_point_map, logs, used_all_logs,
                   gz_queue, scanned, idx, res, table>>

\* lines 136-148: one line of the loop
FoldLine ==
    /\ pc = "parse_routing_failures"
    /\ idx <= Len(logs)
    /\ res' = FoldOne(res, logs[idx])
    /\ idx' = idx + 1
    /\ UNCHANGED <<rest, logdir, channel_point_map, logs, used_all_logs,
                   gz_queue, scanned, warned, table, pc, error>>

\* line 149
FoldReturn ==
    /\ pc = "parse_routing_failures"
    /\ idx > Len(logs)
    /\ pc' = "routing_failures"
    /\ UNCHANGED <<rest, logdir, channel_point_map, logs, used_all_logs,
                   gz_queue, scanned, warned, idx, res, table, error>>

\* lines 108-132: a key whose channel has no peer_alias raises KeyError
RoutingFailures ==
    /\ pc = "routing_failures"
    /\ IF \E cp \in DOMAIN res : RowFails(cp)
       THEN Raise("KeyError") /\ UNCHANGED table
       ELSE /\ table' = {Row(cp, res[cp]) : cp \in DOMAIN res}
            /\ pc' = "exit"
            /\ UNCHANGED error
    /\ UNCHANGED <<rest, logdir, channel_point_map, logs, used_all_logs,
                   gz_queue, scanned, warned, idx, res>>

Next ==
    \/ CollectChannelData
    \/ ParsePrimary
    \/ ListGzFiles
    \/ ParseGzFile
    \/ GzLoopEnd
    \/ GetLogsReturn
    \/ FoldLine
    \/ FoldReturn
    \/ RoutingFailures

Spec == Init /\ [][Next]_vars

-----------------------------------------------------------------------------
(* Vocabulary of the properties *)

\* the line carries a timestamp that is not older than the cutoff
InWindow(line) ==
    line.stamp = "valid" /\ settings.now - line.time <= settings.days_back

\* the line carries a timestamp that is older than the cutoff
Older(line) ==
    line.stamp = "valid" /\ settings.now - line.time > settings.days_back

AtCutoff(line) == line.stamp = "valid" /\ line.time = Cutoff

ScannedLines == [j \in DOMAIN scanned |-> scanned[j].line]

\* get_logs has returned its list
GetLogsDone ==
    \/ pc \in {"parse_routing_failures", "routing_failures", "exit"}
    \/ pc = "raised" /\ error = "KeyError"

\* insertion of a line into a list sorted by timestamp, newest first
RECURSIVE InsertDesc(_, _)
InsertDesc(line, sorted) ==
    IF sorted = <<>> THEN <<line>>
    ELSE IF line.time >= Head(sorted).time THEN <<line>> \o sorted
    ELSE <<Head(sorted)>> \o InsertDesc(line, Tail(sorted))

RECURSIVE SortDesc(_)
SortDesc(lines) ==
    IF lines = <<>> THEN <<>>
    ELSE InsertDesc(Head(lines), SortDesc(Tail(lines)))

\* every line of every file of the directory
Corpus ==
    logdir.primary
        \o Concat([k \in 1..Len(Ascending(DOMAIN logdir.gz)) |->
                     logdir.gz[Ascending(DOMAIN logdir.gz)[k]].lines])

NonIncreasing(lines) ==
    \A i, j \in DOMAIN lines : i <= j => lines[i].time >= lines[j].time

\* lnd.log and at least two archives, all readable, every line timestamped
\* and inside the window, each file in chronological order, lnd.log newest
WindowedCorpus ==
    /\ logdir.has_primary
    /\ Cardinality(DOMAIN logdir.gz) >= 2
    /\ \A n \in DOMAIN logdir.gz : logdir.gz[n].ok
    /\ \A n \in Files :
          /\ \A i \in DOMAIN FileLines(n) : InWindow(FileLines(n)[i])
          /\ \A i, j \in DOMAIN FileLines(n) :
                i <= j => FileLines(n)[i].time <= FileLines(n)[j].time
    /\ \A n \in DOMAIN logdir.gz :
       \A i \in DOMAIN logdir.primary, j \in DOMAIN logdir.gz[n].lines :
          logdir.primary[i].time >= logdir.gz[n].lines[j].time

\* a higher rotation index holds older lines
HigherIsOlder ==
    \A m, n \in DOMAIN logdir.gz :
        m < n =>
          \A i \in DOMAIN logdir.gz[m].lines, j \in DOMAIN logdir.gz[n].lines :
              logdir.gz[m].lines[i].time >= logdir.gz[n].lines[j].time

\* a higher rotation index holds newer lines
HigherIsNewer ==
    \A m, n \in DOMAIN logdir.gz :
        m < n =>
          \A i \in DOMAIN logdir.gz[m].lines, j \in DOMAIN logdir.gz[n].lines :
              logdir.gz[m].lines[i].time <= logdir.gz[n].lines[j].time

\* the lines folded so far whose match is attributed to key k
Folded(k) ==
    {i \in 1..(idx - 1) :
        /\ logs[i].ev.match
        /\ logs[i].ev.channel_point = k
        /\ k \in DOMAIN channel_point_map}

RECURSIVE SumAmounts(_)
SumAmounts(I) ==
    IF I = {} THEN 0
    ELSE LET i == CHOOSE x \in I : TRUE
         IN  logs[i].ev.amount + SumAmounts(I \ {i})

-----------------------------------------------------------------------------
(* Properties *)

\* C1: every line get_logs collects carries a parsed timestamp t with
\* now - t <= lookback; a line exactly at the cutoff is collected whenever
\* the scan reaches it, a line one second older than the cutoff never is.
C1_OnlyLinesInsideTheWindow ==
    /\ \A i \in DOMAIN logs :
          /\ logs[i].stamp = "valid"
          /\ settings.now - logs[i].time <= settings.days_back
          /\ logs[i].time # Cutoff - 1
    /\ SelectSeq(logs, AtCutoff) = SelectSeq(ScannedLines, AtCutoff)

\* C1 witness: a finished run that collected a line exactly at the cutoff
\* and met a line one second older
C1_Witness ==
    /\ pc = "exit"
    /\ \E i \in DOMAIN logs : logs[i].time = Cutoff
    /\ \E j \in DOMAIN scanned :
          /\ scanned[j].line.stamp = "valid"
          /\ scanned[j].line.time = Cutoff - 1

\* C2 as claimed: with lnd.log and at least two archives inside the window,
\* laid out so that a higher rotation index means older content, get_logs
\* returns the whole corpus sorted by timestamp, newest first.
C2_SortedWhenHigherIsOlder ==
    (WindowedCorpus /\ HigherIsOlder /\ GetLogsDone)
        => (NonIncreasing(logs) /\ logs = SortDesc(Corpus))

\* C2 amended: the same, for a directory laid out so that a higher rotation
\* index means newer content.
C2_SortedWhenHigherIsNewer ==
    (WindowedCorpus /\ HigherIsNewer /\ GetLogsDone)
        => (NonIncreasing(logs) /\ logs = SortDesc(Corpus))

\* C2 witness: three non-empty files, newest first across them, all read
C2_Witness ==
    /\ WindowedCorpus /\ HigherIsNewer /\ GetLogsDone
    /\ \A n \in Files : FileLines(n) # <<>>
    /\ Len(logs) >= 3
    /\ logs[1].time > logs[Len(logs)].time

\* C3: at every point of the fold, for every key of res, count is the
\* number of matched attributable events folded for the key, total is the
\* exact sum of their payloads, and min <= max.
C3_CountTotalExactMinBelowMax ==
    \A k \in DOMAIN res :
        /\ res[k].count = Cardinality(Folded(k))
        /\ res[k].total = SumAmounts(Folded(k))
        /\ res[k].min <= res[k].max

\* C3 witness: a rendered report with a key that has several events of
\* different payloads
C3_Witness ==
    /\ pc = "exit"
    /\ \E k \in DOMAIN res :
          /\ res[k].count >= 2
          /\ res[k].min < res[k].max
          /\ res[k].total > res[k].max

\* C4: at every point of the fold the keys of res are exactly the keys of
\* the matched events folded so far that are in channel_point_map, and the
\* table has rows for indexed channels only.
C4_KeysAreTheAttributableKeys ==
    /\ DOMAIN res =
          {logs[i].ev.channel_point : i \in
              {i \in 1..(idx - 1) :
                  /\ logs[i].ev.match
                  /\ logs[i].ev.channel_point \in DOMAIN channel_point_map}}
    /\ \A row \in table :
          \E cp \in DOMAIN channel_point_map :
              row.channel_id = channel_point_map[cp].chan_id
    /\ Cardinality(table) <= Cardinality(DOMAIN res)

\* C4 witness: a rendered report after an event of an unindexed channel
\* and an event of an indexed one were folded
C4_Witness ==
    /\ pc = "exit"
    /\ table # {}
    /\ \E i \in 1..(idx - 1) :
          /\ logs[i].ev.match
          /\ logs[i].ev.channel_point \notin DOMAIN channel_point_map

\* C5 as claimed: when the channel list is fetched and a peer-alias lookup
\* fails, the run is not aborted by it: the channel is indexed and the
\* report with events of that channel is rendered.
C5_AliasFailureIsNotFatal ==
    (/\ rest.list_ok
     /\ \E cp \in DOMAIN rest.node_info : rest.node_info[cp] # "node")
        => /\ error \notin {"get_node_info", "KeyError"}
           /\ pc = "exit" => \A k \in DOMAIN res :
                                \E row \in table :
                                    row.channel_id =
                                        channel_point_map[k].chan_id

\* C6 as claimed: when lnd.log and every archive are used up without a
\* line older than the cutoff, also when no line carries a timestamp,
\* get_logs returns with the exhausted flag true.
C6_ExhaustedScanReturns ==
    (/\ logdir.has_primary
     /\ \A n \in DOMAIN logdir.gz : logdir.gz[n].ok
     /\ \A i \in DOMAIN Corpus : ~Older(Corpus[i]))
        => /\ error # "IndexError"
           /\ GetLogsDone => used_all_logs

\* C7 as claimed: an archive that cannot be read is skipped and the scan
\* goes on; the run is not ended by it.
C7_UnreadableArchiveIsSkipped ==
    (\E n \in DOMAIN logdir.gz : ~logdir.gz[n].ok) => error # "gzip"

\* C8: once a loop iteration has met a line older than the cutoff, that
\* line is the last one ever looked at, nothing is collected after it, the
\* reading loops are left, the exhausted flag is false and no warning is
\* printed.
C8_ReadingStopsAtTheCutoff ==
    \A j \in DOMAIN scanned :
        Older(scanned[j].line) =>
            /\ j = Len(scanned)
            /\ logs = SelectSeq(SubSeq(ScannedLines, 1, j - 1), InWindow)
            /\ pc \notin {"get_logs", "parse_gz_log_files", "gz_loop"}
            /\ ~used_all_logs
            /\ warned = <<>>

\* C8 witness: a finished run that stopped inside an archive, with lines
\* collected before and another archive left unread
C8_Witness ==
    /\ pc = "exit"
    /\ logs # <<>>
    /\ gz_queue # <<>>
    /\ \E j \in DOMAIN scanned :
          Older(scanned[j].line) /\ scanned[j].file > 0

\* C9 as claimed: a line without a leading timestamp that the scan reaches
\* is forwarded into the list given to event matching.
C9_PlainLinesAreForwarded ==
    \A j \in DOMAIN scanned :
        scanned[j].line.stamp = "none" => scanned[j].line \in Range(logs)

\* C9 amended: a line without a leading timestamp that the scan reaches is
\* skipped: it is never in the list given to event matching, and the scan
\* goes on to the line before it in the file.
C9_PlainLinesAreSkipped ==
    /\ \A i \in DOMAIN logs : logs[i].stamp # "none"
    /\ \A j \in DOMAIN scanned :
          (scanned[j].line.stamp = "none" /\ scanned[j].pos > 1) =>
              /\ j < Len(scanned)
              /\ scanned[j + 1].file = scanned[j].file
              /\ scanned[j + 1].pos = scanned[j].pos - 1

\* C9 witness: a finished run that met a line without a timestamp and
\* collected the line before it in the file
C9_Witness ==
    /\ pc = "exit"
    /\ \E j \in DOMAIN scanned :
          /\ scanned[j].line.stamp = "none"
          /\ scanned[j].pos > 1
          /\ j < Len(scanned)
          /\ scanned[j + 1].line \in Range(logs)

\* C10 as claimed: each step of the fold changes the statistics of a key
\* monotonically: count, total and max never decrease, the min of a key
\* that has an event never increases, and the first payload of a key
\* becomes both its min and its max.
C10_StatisticsAreMonotone ==
    [][\A k \in DOMAIN res' :
          IF k \in DOMAIN res
          THEN /\ res'[k].count >= res[k].count
               /\ res'[k].total >= res[k].total
               /\ res'[k].max >= res[k].max
               /\ res[k].count >= 1 => res'[k].min <= res[k].min
          ELSE /\ res'[k].count = 1
               /\ res'[k].min = res'[k].total
               /\ res'[k].max = res'[k].total]_vars

=============================================================================
